---- MODULE Spec2Model ----
(***************************************************************************)
(* Model of strip.py: the courtyard scanner strip_courtyard_from_content,  *)
(* the gate has_courtyard, the per-file driver process_file and the batch  *)
(* driver main.                                                            *)
(*                                                                         *)
(* Text is a sequence of tokens.  Every token is a literal piece of the    *)
(* file's text, so a content is the concatenation of its tokens; the      *)
(* regular expressions and str.split / str.join of the source are         *)
(* computed on the token sequence.  Line indices are 0-based, as in the    *)
(* source: line k of a list L is At(L, k) = L[k + 1].                      *)
(***************************************************************************)
EXTENDS Integers, Sequences, FiniteSets, TLC

VARIABLES
    content,            \* strip_courtyard_from_content: the argument
    lines,              \* strip.py:58
    result_lines,       \* strip.py:59
    i,                  \* strip.py:60
    removed_count,      \* strip.py:61
    j,                  \* strip.py:75, value after the inner loop
    element_lines,      \* strip.py:73, value after the inner loop
    output,             \* the value returned at strip.py:103
    pc,                 \* position of the running function
    fs,                 \* the files: path -> [exists, data]
    dirs,               \* the directories that exist
    kicad_files,        \* strip.py:226 (set of file stems found by glob)
    cfg,                \* index of the configuration of strip.py:244
    idx,                \* position in sorted(kicad_files), strip.py:258
    success_count,      \* strip.py:257
    overall_success,    \* strip.py:242
    exit_status,        \* process exit status, -1 while running
    calls               \* the process_file calls made so far, strip.py:264

scan_vars == <<content, lines, result_lines, i, removed_count, j, element_lines, output>>
main_vars == <<fs, dirs, kicad_files, cfg, idx, success_count, overall_success, exit_status, calls>>
vars == <<content, lines, result_lines, i, removed_count, j, element_lines, output, pc,
          fs, dirs, kicad_files, cfg, idx, success_count, overall_success, exit_status, calls>>

(***************************************************************************)
(* Bounds of the explored inputs.                                          *)
(***************************************************************************)
\* longest content enumerated token by token
MaxLen == 4
\* most lines of a content built from whole lines (LineShapes)
MaxLines == 3
\* most files in the input directory
MaxFiles == 2

(***************************************************************************)
(* Tokens and character classes.                                           *)
(***************************************************************************)
NL == "\n"

\* \s of the regular expressions: the space and the line break
Whitespace == {" ", "\t", NL}

\* the keywords of the element pattern
GeomKeywords == {"fp_rect", "fp_line", "fp_poly", "fp_circle", "fp_arc"}

\* the quoted layer names of the courtyard pattern
CourtyardLayers == {"\"F.CrtYd\"", "\"B.CrtYd\""}

\* a whole courtyard tag written on one line with one space
FullTags == {"layer \"F.CrtYd\"", "layer \"B.CrtYd\""}

\* tokens whose first character is a word character (\w): \b after a keyword
\* fails in front of them
WordInitial == GeomKeywords \cup FullTags \cup {"layer"}

At(L, k) == L[k + 1]

\* str.count of one character
Count(line, ch) == Cardinality({k \in 1..Len(line) : line[k] = ch})

\* line.count('(') - line.count(')')
ParenDelta(line) == Count(line, "(") - Count(line, ")")

\* re.match(r'^(\s*)\((fp_rect|fp_line|fp_poly|fp_circle|fp_arc)\b', line)
geom_match(line) ==
    \E k \in 1..(Len(line) - 1) :
        /\ \A m \in 1..(k - 1) : line[m] \in Whitespace
        /\ line[k] = "("
        /\ line[k + 1] \in GeomKeywords
        /\ (IF k + 1 = Len(line) THEN TRUE ELSE line[k + 2] \notin WordInitial)

\* re.search(r'layer\s+"[FB]\.CrtYd"', text): \s+ also matches line breaks
courtyard_search(text) ==
    \E k \in 1..Len(text) :
        \/ text[k] \in FullTags
        \/ /\ text[k] = "layer"
           /\ \E m \in (k + 2)..Len(text) :
                /\ text[m] \in CourtyardLayers
                /\ \A q \in (k + 1)..(m - 1) : text[q] \in Whitespace

\* content.split('\n')
RECURSIVE split(_)
split(s) ==
    IF \A k \in 1..Len(s) : s[k] # NL
    THEN <<s>>
    ELSE LET k == CHOOSE n \in 1..Len(s) : s[n] = NL /\ \A m \in 1..(n - 1) : s[m] # NL
         IN  <<SubSeq(s, 1, k - 1)>> \o split(SubSeq(s, k + 1, Len(s)))

\* a join that ends every line with a line break
RECURSIVE join_terminated(_)
join_terminated(L) ==
    IF L = <<>> THEN <<>> ELSE L[1] \o <<NL>> \o join_terminated(Tail(L))

\* '\n'.join(lines)
RECURSIVE join(_)
join(L) ==
    IF L = <<>> THEN <<>>
    ELSE IF Len(L) = 1 THEN L[1]
    ELSE L[1] \o <<NL>> \o join(Tail(L))

\* a gate that looks for the tag line by line
has_courtyard_by_line(c) ==
    \E k \in 1..Len(split(c)) : courtyard_search(split(c)[k])

\* has_courtyard(content)
has_courtyard(c) == courtyard_search(c)

\* an inner loop that goes on while paren_count >= 0
RECURSIVE collect_nonneg(_, _, _)
collect_nonneg(L, jj, paren_count) ==
    IF jj < Len(L) /\ paren_count >= 0
    THEN collect_nonneg(L, jj + 1, paren_count + ParenDelta(At(L, jj)))
    ELSE jj

\* the inner while loop: the value of j when it ends
RECURSIVE collect(_, _, _)
collect(L, jj, paren_count) ==
    IF jj < Len(L) /\ paren_count > 0
    THEN collect(L, jj + 1, paren_count + ParenDelta(At(L, jj)))
    ELSE jj

\* element_lines after the inner loop started at line ii ended at jj
element_of(L, ii, jj) == SubSeq(L, ii + 1, jj)

\* a layer test that reads the element's first line only
element_first_line(el) == el[1]

\* element_content
element_content(el) == join(el)

\* an iteration whose keep branch appends the first line only
loop_body_append(L, st) ==
    LET line == At(L, st.i) IN
    IF geom_match(line)
    THEN LET jj == collect(L, st.i + 1, ParenDelta(line))
             el == element_of(L, st.i, jj)
         IN  IF courtyard_search(element_content(el))
             THEN [st EXCEPT !.removed_count = @ + 1, !.i = jj, !.j = jj,
                             !.element_lines = el]
             ELSE [st EXCEPT !.result_lines = Append(@, line), !.i = jj, !.j = jj,
                             !.element_lines = el]
    ELSE [st EXCEPT !.result_lines = Append(@, line), !.i = @ + 1]

\* an iteration whose keep branch lacks its continue
loop_body_fallthrough(L, st) ==
    LET line == At(L, st.i) IN
    IF geom_match(line)
    THEN LET jj == collect(L, st.i + 1, ParenDelta(line))
             el == element_of(L, st.i, jj)
         IN  IF courtyard_search(element_content(el))
             THEN [st EXCEPT !.removed_count = @ + 1, !.i = jj, !.j = jj,
                             !.element_lines = el]
             ELSE [st EXCEPT !.result_lines = Append(@ \o el, line), !.i = jj + 1,
                             !.j = jj, !.element_lines = el]
    ELSE [st EXCEPT !.result_lines = Append(@, line), !.i = @ + 1]

\* one iteration of the outer while loop on the loop state st
loop_body(L, st) ==
    LET line == At(L, st.i) IN
    IF geom_match(line)
    THEN LET jj == collect(L, st.i + 1, ParenDelta(line))
             el == element_of(L, st.i, jj)
         IN  IF courtyard_search(element_content(el))
             THEN [st EXCEPT !.removed_count = @ + 1, !.i = jj, !.j = jj,
                             !.element_lines = el]
             ELSE [st EXCEPT !.result_lines = @ \o el, !.i = jj, !.j = jj,
                             !.element_lines = el]
    ELSE [st EXCEPT !.result_lines = Append(@, line), !.i = @ + 1]

\* the loop state at strip.py:59-61 (j and element_lines are not yet bound)
loop_start == [i |-> 0, j |-> 0, element_lines |-> <<>>, result_lines |-> <<>>,
               removed_count |-> 0]

\* the outer while loop run to its end
RECURSIVE while_loop(_, _)
while_loop(L, st) ==
    IF st.i < Len(L) THEN while_loop(L, loop_body(L, st)) ELSE st

\* strip_courtyard_from_content(content), the returned string
strip_courtyard_from_content(c) ==
    join(while_loop(split(c), loop_start).result_lines)

\* removed_count when strip_courtyard_from_content(content) returns
removed_in(c) == while_loop(split(c), loop_start).removed_count

(***************************************************************************)
(* The inputs.                                                             *)
(***************************************************************************)
Alphabet == {"(", ")", "fp_line", "layer \"F.CrtYd\"", "layer", "\"F.CrtYd\"", " ", NL}

\* all sequences over S of length at most n
RECURSIVE SeqsUpTo(_, _)
SeqsUpTo(S, n) ==
    IF n = 0 THEN {<<>>}
    ELSE LET shorter == SeqsUpTo(S, n - 1)
         IN  shorter \cup {Append(s, x) : s \in {t \in shorter : Len(t) = n - 1}, x \in S}

\* whole lines as they occur in footprint files
LineShapes == {
    <<>>,
    <<"(">>,
    <<")">>,
    <<"(", "fp_line">>,
    <<"(", "fp_poly", ")">>,
    <<" ", "(", "fp_line", "(", "layer \"F.CrtYd\"", ")", ")">>,
    <<"(", "fp_arc", "(", "layer \"B.CrtYd\"", ")", ")", ")">>,
    <<"(", "layer \"F.CrtYd\"", ")">>,
    <<"(", "layer">>,
    <<"\"B.CrtYd\"", ")">> }

Contents ==
    SeqsUpTo(Alphabet, MaxLen)
    \cup {join(L) : L \in SeqsUpTo(LineShapes, MaxLines) \ {<<>>}}

(***************************************************************************)
(* strip_courtyard_from_content, one action per outer iteration.           *)
(***************************************************************************)
loop_state == [i |-> i, j |-> j, element_lines |-> element_lines,
               result_lines |-> result_lines, removed_count |-> removed_count]

SetLoopState(st) ==
    /\ i' = st.i
    /\ j' = st.j
    /\ element_lines' = st.element_lines
    /\ result_lines' = st.result_lines
    /\ removed_count' = st.removed_count

\* strip.py:58-61
Begin ==
    /\ pc = "start"
    /\ lines' = split(content)
    /\ SetLoopState(loop_start)
    /\ pc' = "loop"
    /\ UNCHANGED <<content, output>>
    /\ UNCHANGED main_vars

\* strip.py:96-98: the line starts no geometric element
KeepLine ==
    /\ pc = "loop"
    /\ i < Len(lines)
    /\ ~geom_match(At(lines, i))
    /\ SetLoopState(loop_body(lines, loop_state))
    /\ UNCHANGED <<content, lines, output, pc>>
    /\ UNCHANGED main_vars

\* strip.py:70-89: the element is on a courtyard layer
RemoveElement ==
    /\ pc = "loop"
    /\ i < Len(lines)
    /\ geom_match(At(lines, i))
    /\ loop_body(lines, loop_state).removed_count = removed_count + 1
    /\ SetLoopState(loop_body(lines, loop_state))
    /\ UNCHANGED <<content, lines, output, pc>>
    /\ UNCHANGED main_vars

\* strip.py:70-84, 90-94: the element is kept
KeepElement ==
    /\ pc = "loop"
    /\ i < Len(lines)
    /\ geom_match(At(lines, i))
    /\ loop_body(lines, loop_state).removed_count = removed_count
    /\ SetLoopState(loop_body(lines, loop_state))
    /\ UNCHANGED <<content, lines, output, pc>>
    /\ UNCHANGED main_vars

\* strip.py:63, 100-103
Return ==
    /\ pc = "loop"
    /\ ~(i < Len(lines))
    /\ output' = join(result_lines)
    /\ pc' = "done"
    /\ UNCHANGED <<content, lines, result_lines, i, removed_count, j, element_lines>>
    /\ UNCHANGED main_vars

NoFile == [exists |-> FALSE, data |-> <<>>]

MainIdle ==
    /\ fs = <<>>
    /\ dirs = {}
    /\ kicad_files = {}
    /\ cfg = 0
    /\ idx = 0
    /\ success_count = 0
    /\ overall_success = TRUE
    /\ exit_status = -1
    /\ calls = <<>>

Init ==
    /\ content \in Contents
    /\ lines = <<>>
    /\ result_lines = <<>>
    /\ i = 0
    /\ removed_count = 0
    /\ j = 0
    /\ element_lines = <<>>
    /\ output = <<>>
    /\ pc = "start"
    /\ MainIdle

Next == Begin \/ KeepLine \/ RemoveElement \/ KeepElement \/ Return

Spec == Init /\ [][Next]_vars

\* the interpreter runs the function to its end
FairSpec == Init /\ [][Next]_vars /\ WF_vars(Next)

(***************************************************************************)
(* process_file and main.                                                  *)
(***************************************************************************)
\* strip.py:218
InputDir == "APRLPrints.pretty"

\* strip.py:236-240
configs == << [suffix |-> "-nofp", output_dir_name |-> "APRLPrints-nofp.pretty",
               strip_courtyard |-> TRUE, strip_designator |-> FALSE] >>

\* the stems of the .kicad_mod files that may be in the input directory
Stems == 1..MaxFiles

\* input_dir / (stem + ".kicad_mod")
InPath(stem) == [dir |-> InputDir, stem |-> stem, suffix |-> ""]

\* strip.py:245, 260-262: output_dir / (base_name + suffix + ".kicad_mod")
OutPath(c, stem) ==
    [dir |-> configs[c].output_dir_name, stem |-> stem, suffix |-> configs[c].suffix]

Paths == {InPath(s) : s \in Stems} \cup {OutPath(c, s) : c \in 1..Len(configs), s \in Stems}

\* the exception an I/O statement of process_file raises, if any: the read of
\* strip.py:178-179, the open of strip.py:200 or the write of strip.py:201
Faults == {"none", "read", "open", "write"}

\* a process_file that strips whatever strip_courtyard says
process_file_always(fsys, input_path, output_path, strip_courtyard, fault) ==
    IF fault = "read" \/ ~fsys[input_path].exists
    THEN [fs |-> fsys, ret |-> FALSE, report |-> "error", content |-> <<>>,
          modified |-> FALSE]
    ELSE
    LET c == fsys[input_path].data
        processed_content == strip_courtyard_from_content(c)
    IN  IF fault = "open"
        THEN [fs |-> fsys, ret |-> FALSE, report |-> "error", content |-> c,
              modified |-> TRUE]
        ELSE IF fault = "write"
        THEN [fs |-> [fsys EXCEPT ![output_path] = [exists |-> TRUE, data |-> <<>>]],
              ret |-> FALSE, report |-> "error", content |-> c, modified |-> TRUE]
        ELSE [fs |-> [fsys EXCEPT ![output_path] =
                                      [exists |-> TRUE, data |-> processed_content]],
              ret |-> TRUE, report |-> "created", content |-> c, modified |-> TRUE]

\* process_file(input_path, output_path, strip_courtyard): the files after the
\* call, the value returned, the last message logged, the content read and
\* the flag modified
process_file(fsys, input_path, output_path, strip_courtyard, fault) ==
    IF fault = "read" \/ ~fsys[input_path].exists
    THEN [fs |-> fsys, ret |-> FALSE, report |-> "error", content |-> <<>>,
          modified |-> FALSE]
    ELSE
    LET c == fsys[input_path].data
        gate == strip_courtyard /\ has_courtyard(c)
        processed_content == IF gate THEN strip_courtyard_from_content(c) ELSE c
        modified == gate
    IN  IF fault = "open"
        THEN [fs |-> fsys, ret |-> FALSE, report |-> "error", content |-> c,
              modified |-> modified]
        ELSE IF fault = "write"
        THEN [fs |-> [fsys EXCEPT ![output_path] = [exists |-> TRUE, data |-> <<>>]],
              ret |-> FALSE, report |-> "error", content |-> c, modified |-> modified]
        ELSE [fs |-> [fsys EXCEPT ![output_path] =
                                      [exists |-> TRUE, data |-> processed_content]],
              ret |-> TRUE, report |-> IF modified THEN "created" ELSE "copied",
              content |-> c, modified |-> modified]

\* the record kept of one call of process_file
CallRecord(c, input_path, output_path, strip_courtyard, fault, r) ==
    [cfg |-> c, input |-> input_path, output |-> output_path,
     strip_courtyard |-> strip_courtyard, fault |-> fault, ret |-> r.ret,
     report |-> r.report, content |-> r.content, modified |-> r.modified]

\* sorted(kicad_files)
RECURSIVE Sorted(_)
Sorted(S) ==
    IF S = {} THEN <<>>
    ELSE LET m == CHOOSE x \in S : \A y \in S : x <= y
         IN  <<m>> \o Sorted(S \ {m})

\* a configuration counted as succeeded when any file succeeded
some_file_succeeded(count, n) == count > 0

\* strip.py:270: not (success_count < len(kicad_files))
all_files_succeeded(count, n) == ~(count < n)

ScanIdle ==
    /\ lines = <<>>
    /\ result_lines = <<>>
    /\ i = 0
    /\ removed_count = 0
    /\ j = 0
    /\ element_lines = <<>>
    /\ output = <<>>

\* one call of process_file on a file holding any content
FileInit ==
    /\ content \in Contents
    /\ ScanIdle
    /\ pc = "call"
    /\ fs = [p \in Paths |-> IF p = InPath(1) THEN [exists |-> TRUE, data |-> content]
                                              ELSE NoFile]
    /\ dirs = {InputDir, configs[1].output_dir_name}
    /\ kicad_files = {1}
    /\ cfg = 1
    /\ idx = 1
    /\ success_count = 0
    /\ overall_success = TRUE
    /\ exit_status = -1
    /\ calls = <<>>

\* strip.py:162-211
CallProcessFile ==
    /\ pc = "call"
    /\ \E strip_courtyard \in BOOLEAN, fault \in Faults :
        LET r == process_file(fs, InPath(1), OutPath(1, 1), strip_courtyard, fault)
        IN  /\ fs' = r.fs
            /\ calls' = Append(calls, CallRecord(cfg, InPath(1), OutPath(1, 1),
                                                 strip_courtyard, fault, r))
    /\ pc' = "returned"
    /\ UNCHANGED scan_vars
    /\ UNCHANGED <<dirs, kicad_files, cfg, idx, success_count, overall_success, exit_status>>

FileNext == CallProcessFile

FileSpec == FileInit /\ [][FileNext]_vars

\* the contents of the files of the batch
SampleContents == {
    <<>>,
    <<"(", "layer \"F.CrtYd\"", ")">>,
    <<"(", "fp_line", "(", "layer \"F.CrtYd\"", ")", ")", NL, ")">> }

MainInit ==
    /\ content = <<>>
    /\ ScanIdle
    /\ pc = "main"
    /\ dirs \in {{}, {InputDir}}
    /\ kicad_files \in (IF InputDir \in dirs THEN SUBSET Stems ELSE {{}})
    /\ fs \in [Paths -> {NoFile} \cup {[exists |-> TRUE, data |-> c] : c \in SampleContents}]
    /\ \A p \in Paths : fs[p].exists <=> (\E s \in kicad_files : p = InPath(s))
    /\ cfg = 0
    /\ idx = 0
    /\ success_count = 0
    /\ overall_success = TRUE
    /\ exit_status = -1
    /\ calls = <<>>

\* strip.py:221-223
MainNoInputDir ==
    /\ pc = "main"
    /\ InputDir \notin dirs
    /\ exit_status' = 1
    /\ pc' = "exited"
    /\ UNCHANGED scan_vars
    /\ UNCHANGED <<fs, dirs, kicad_files, cfg, idx, success_count, overall_success, calls>>

\* strip.py:226-230
MainNoFiles ==
    /\ pc = "main"
    /\ InputDir \in dirs
    /\ kicad_files = {}
    /\ exit_status' = 0
    /\ pc' = "exited"
    /\ UNCHANGED scan_vars
    /\ UNCHANGED <<fs, dirs, kicad_files, cfg, idx, success_count, overall_success, calls>>

\* strip.py:232-244
MainStart ==
    /\ pc = "main"
    /\ InputDir \in dirs
    /\ kicad_files # {}
    /\ overall_success' = TRUE
    /\ cfg' = 1
    /\ pc' = "config"
    /\ UNCHANGED scan_vars
    /\ UNCHANGED <<fs, dirs, kicad_files, idx, success_count, exit_status, calls>>

\* strip.py:245-257
MainMkdir ==
    /\ pc = "config"
    /\ dirs' = dirs \cup {configs[cfg].output_dir_name}
    /\ success_count' = 0
    /\ idx' = 1
    /\ pc' = "files"
    /\ UNCHANGED scan_vars
    /\ UNCHANGED <<fs, kicad_files, cfg, overall_success, exit_status, calls>>

\* strip.py:248: mkdir raises, nothing catches it and the interpreter exits 1
MainMkdirError ==
    /\ pc = "config"
    /\ exit_status' = 1
    /\ pc' = "crashed"
    /\ UNCHANGED scan_vars
    /\ UNCHANGED <<fs, dirs, kicad_files, cfg, idx, success_count, overall_success, calls>>

\* strip.py:258-265
MainProcessFile ==
    /\ pc = "files"
    /\ idx <= Len(Sorted(kicad_files))
    /\ \E fault \in Faults :
        LET stem == Sorted(kicad_files)[idx]
            r == process_file(fs, InPath(stem), OutPath(cfg, stem),
                              configs[cfg].strip_courtyard, fault)
        IN  /\ fs' = r.fs
            /\ success_count' = IF r.ret THEN success_count + 1 ELSE success_count
            /\ calls' = Append(calls, CallRecord(cfg, InPath(stem), OutPath(cfg, stem),
                                                 configs[cfg].strip_courtyard, fault, r))
    /\ idx' = idx + 1
    /\ UNCHANGED scan_vars
    /\ UNCHANGED <<dirs, kicad_files, cfg, overall_success, exit_status, pc>>

\* strip.py:267-271
MainConfigDone ==
    /\ pc = "files"
    /\ idx > Len(Sorted(kicad_files))
    /\ overall_success' = IF all_files_succeeded(success_count, Cardinality(kicad_files))
                          THEN overall_success ELSE FALSE
    /\ cfg' = cfg + 1
    /\ pc' = IF cfg + 1 <= Len(configs) THEN "config" ELSE "summary"
    /\ UNCHANGED scan_vars
    /\ UNCHANGED <<fs, dirs, kicad_files, idx, success_count, exit_status, calls>>

\* strip.py:273-279
MainExit ==
    /\ pc = "summary"
    /\ exit_status' = IF ~overall_success THEN 1 ELSE 0
    /\ pc' = "exited"
    /\ UNCHANGED scan_vars
    /\ UNCHANGED <<fs, dirs, kicad_files, cfg, idx, success_count, overall_success, calls>>

MainNext ==
    \/ MainNoInputDir
    \/ MainNoFiles
    \/ MainStart
    \/ MainMkdir
    \/ MainMkdirError
    \/ MainProcessFile
    \/ MainConfigDone
    \/ MainExit

MainSpec == MainInit /\ [][MainNext]_vars

\* the actions compute the function the operator computes
ScanAgrees ==
    pc = "done" =>
        /\ output = strip_courtyard_from_content(content)
        /\ removed_count = removed_in(content)

(***************************************************************************)
(* Element delimitation and removal stated without the loops.              *)
(***************************************************************************)
\* sum of ('(' count minus ')' count) over lines a..b-1
RECURSIVE RunSum(_, _, _)
RunSum(L, a, b) == IF a >= b THEN 0 ELSE ParenDelta(At(L, a)) + RunSum(L, a + 1, b)

\* smallest index above a at which the running sum from a is <= 0, else Len(L)
DelimEnd(L, a) ==
    LET closing == {b \in (a + 1)..Len(L) : RunSum(L, a, b) <= 0}
    IN  IF closing = {} THEN Len(L)
        ELSE CHOOSE b \in closing : \A c \in closing : b <= c

\* text of lines a..b-1
TextOf(L, a, b) == join(SubSeq(L, a + 1, b))

\* indices of the lines of the courtyard elements met from line p on
RECURSIVE RemovedIdx(_, _)
RemovedIdx(L, p) ==
    IF p >= Len(L) THEN {}
    ELSE IF ~geom_match(At(L, p)) THEN RemovedIdx(L, p + 1)
    ELSE LET e == DelimEnd(L, p)
         IN  (IF courtyard_search(TextOf(L, p, e)) THEN p..(e - 1) ELSE {})
             \cup RemovedIdx(L, e)

\* L without the lines whose indices are in D
RECURSIVE Without(_, _, _)
Without(L, D, p) ==
    IF p >= Len(L) THEN <<>>
    ELSE (IF p \in D THEN <<>> ELSE <<At(L, p)>>) \o Without(L, D, p + 1)

Surviving(L) == Without(L, RemovedIdx(L, 0), 0)

\* an outer iteration is about to run on a geometric start line
AtElementStart == pc = "loop" /\ i < Len(lines) /\ geom_match(At(lines, i))

\* C1: the output holds no courtyard geometric element: no output line that
\* starts a geometric element has an extent (the line and the following
\* lines up to parenthesis balance) whose text contains a courtyard tag.
C1_NoCourtyardElementLeft ==
    pc = "done" =>
        LET O == split(output) IN
        \A k \in 0..(Len(O) - 1) :
            geom_match(At(O, k)) => ~courtyard_search(TextOf(O, k, DelimEnd(O, k)))

\* C1 witness: something was removed and geometry remains in the output
C1_Witness ==
    /\ pc = "done"
    /\ removed_count > 0
    /\ \E k \in 0..(Len(split(output)) - 1) : geom_match(At(split(output), k))

\* lines a geometric start line without courtyard tag in its own extent spans
UntaggedElementIdx(L) ==
    UNION {k..(DelimEnd(L, k) - 1) :
             k \in {m \in 0..(Len(L) - 1) :
                       /\ geom_match(At(L, m))
                       /\ ~courtyard_search(TextOf(L, m, DelimEnd(L, m)))}}

C3_RemovedElementBalanced ==
    [][removed_count' = removed_count + 1
         => RunSum(element_lines', 0, Len(element_lines')) = 0]_vars

\* C6: at a geometric start line i the element is lines i..j-1 with j the
\* smallest index above i whose running parenthesis sum from i is <= 0 (or
\* the number of lines); the layer test reads exactly that text, the element
\* is kept or dropped whole, and the scan resumes at j.
C6_ElementDelimitation ==
    [][AtElementStart =>
        LET e == DelimEnd(lines, i) IN
        /\ j' = e
        /\ i' = e
        /\ element_lines' = SubSeq(lines, i + 1, e)
        /\ IF courtyard_search(TextOf(lines, i, e))
           THEN result_lines' = result_lines /\ removed_count' = removed_count + 1
           ELSE /\ result_lines' = result_lines \o SubSeq(lines, i + 1, e)
                /\ removed_count' = removed_count]_vars

\* C6 witness: a multi-line element ended by balance before the last line
C6_Witness ==
    /\ pc = "loop"
    /\ Len(element_lines) >= 2
    /\ j < Len(lines)
    /\ i = j
    /\ RunSum(element_lines, 0, Len(element_lines)) <= 0

\* one step of the scan as a single forward pass
C8_Step ==
    /\ pc = "loop" /\ pc' = "loop" =>
        /\ i' > i
        /\ i' <= Len(lines)
        /\ j' <= Len(lines)
        /\ \/ /\ result_lines' = result_lines \o SubSeq(lines, i + 1, i')
              /\ removed_count' = removed_count
           \/ /\ result_lines' = result_lines
              /\ removed_count' = removed_count + 1
    /\ pc' = "done" =>
        /\ i = Len(lines)
        /\ Len(result_lines) + Cardinality(RemovedIdx(lines, 0)) = Len(lines)

\* C8: the scan terminates and is a single forward pass: i strictly increases
\* on every outer iteration, j never exceeds the number of lines, and every
\* input line ends up in the output or in exactly one removed element.
C8_SingleForwardPass ==
    /\ [][C8_Step]_vars
    /\ <>(pc = "done")

\* C8 witness: a finished scan of several lines that kept and removed lines
C8_Witness ==
    /\ pc = "done"
    /\ Len(lines) >= 3
    /\ removed_count >= 1
    /\ Len(result_lines) >= 1

\* C9: stripping the output again returns the output and removes nothing.
C9_Idempotent ==
    pc = "done" =>
        /\ strip_courtyard_from_content(output) = output
        /\ removed_in(output) = 0

\* C9 witness: a first pass that removed an element and left geometry
C9_Witness ==
    /\ pc = "done"
    /\ removed_count > 0
    /\ output # <<>>
    /\ \E k \in 0..(Len(result_lines) - 1) : geom_match(At(result_lines, k))

(***************************************************************************)
(* Claims about process_file and main.                                     *)
(***************************************************************************)
\* the text the call left in its output file
Written(call) == fs[call.output].data

\* the pairs (configuration, file) main has to process, in processing order
RECURSIVE Schedule(_)
Schedule(c) ==
    IF c > Len(configs) THEN <<>>
    ELSE [k \in 1..Cardinality(kicad_files) |-> <<c, InPath(Sorted(kicad_files)[k])>>]
         \o Schedule(c + 1)

Attempts == [k \in 1..Len(calls) |-> <<calls[k].cfg, calls[k].input>>]

SomeCallFailed == \E k \in 1..Len(calls) : ~calls[k].ret

\* process_file returns False, raising nothing, whenever a statement raised
FailureCaught == \A k \in 1..Len(calls) : calls[k].ret <=> calls[k].fault = "none"

\* C4 as stated: a failing file is caught, every file is still attempted
\* exactly once per configuration, and main exits with status 1 if and only
\* if some process_file call returned False.
C4_Original ==
    /\ FailureCaught
    /\ pc \in {"exited", "crashed"} =>
        /\ Attempts = Schedule(1)
        /\ exit_status = 1 <=> SomeCallFailed

\* C4 amended: a failing file is caught by process_file (False, no raise); once
\* the input directory and a file are found and the output directory is made,
\* main attempts every file exactly once per configuration whatever the
\* earlier ones returned; main exits with status 1 if and only if a call
\* returned False, the input directory is missing, or mkdir raised.
C4_FailurePerFile ==
    /\ FailureCaught
    /\ pc = "files" => Attempts = SubSeq(Schedule(1), 1, Len(calls))
    /\ pc \in {"summary", "exited"} /\ cfg > Len(configs) => Attempts = Schedule(1)
    /\ pc \in {"exited", "crashed"} =>
        (exit_status = 1 <=> (SomeCallFailed \/ InputDir \notin dirs \/ pc = "crashed"))
    /\ pc = "exited" => exit_status \in {0, 1}

\* C4 witness: the first file failed, a later one was still processed and
\* succeeded, and main exited 1
C4_Witness ==
    /\ pc = "exited"
    /\ exit_status = 1
    /\ Len(calls) >= 2
    /\ ~calls[1].ret
    /\ calls[Len(calls)].ret

\* C5: with strip_courtyard False, or a content without courtyard tag, a call
\* that read and wrote writes the content it read, returns True and leaves
\* the input file as it was.
C5_CopyUnchanged ==
    \A k \in 1..Len(calls) :
        LET call == calls[k] IN
        (call.fault = "none" /\ (~call.strip_courtyard \/ ~has_courtyard(call.content))) =>
            /\ call.content = content
            /\ Written(call) = call.content
            /\ fs[call.output].exists
            /\ call.ret
            /\ fs[call.input] = [exists |-> TRUE, data |-> content]

\* C5 witness: strip_courtyard is False on a content the scanner would change
C5_Witness ==
    /\ pc = "returned"
    /\ calls[1].fault = "none"
    /\ ~calls[1].strip_courtyard
    /\ removed_in(content) > 0

\* C7: "Successfully created" (modified) is reported exactly when the written
\* content differs from the input content, "Copied" exactly when it is equal.
C7_ReportMatchesChange ==
    \A k \in 1..Len(calls) :
        LET call == calls[k] IN
        call.fault = "none" =>
            /\ call.modified <=> Written(call) # call.content
            /\ call.report = "created" <=> Written(call) # call.content
            /\ call.report = "copied" <=> Written(call) = call.content

\* C10: the gate never changes the result: a content without courtyard tag
\* is a fixed point of the scanner, so with strip_courtyard True the content
\* written is strip_courtyard_from_content of the content read.
C10_GateTransparent ==
    \A k \in 1..Len(calls) :
        LET call == calls[k] IN
        (call.fault = "none" /\ call.strip_courtyard) =>
            /\ Written(call) = strip_courtyard_from_content(call.content)
            /\ ~has_courtyard(call.content) =>
                    strip_courtyard_from_content(call.content) = call.content

\* C10 witness: the gate skipped the scanner on a content with a geometric element
C10_Witness ==
    /\ pc = "returned"
    /\ calls[1].fault = "none"
    /\ calls[1].strip_courtyard
    /\ ~has_courtyard(content)
    /\ \E k \in 0..(Len(split(content)) - 1) : geom_match(At(split(content), k))
====
